---- MODULE Spec2Model ----
(***************************************************************************)
(* The LRU eviction engine of Distributed-Cache-Go (package lru): the      *)
(* recency list, the index map, the expiry map, the byte counter, the      *)
(* read-write lock, the reaper goroutine and the asynchronous delete a     *)
(* stale lookup spawns.                                                    *)
(*                                                                         *)
(* A Go panic or runtime fatal error that nothing recovers ends the        *)
(* process: it is recorded in c.panic and no action is enabled after it.   *)
(* Deferred unlocks run while the panic unwinds, so the lock state of the  *)
(* panic state is the one the code leaves.                                 *)
(***************************************************************************)
EXTENDS Integers, Sequences, FiniteSets, TLC

(* ---------------------------------------------------------------- bounds *)
MaxValueLen == 1
OptMaxBytes == 2
OptCleanupInterval == 1
MaxTime == 2
MaxLookups == 2

\* the keys the callers use and the calling goroutines
Keys == {"a", "b", "cc"}
CallerIds == {"g1", "g2"}
KeyLen(k) == Len(k)

\* A Value is known to the engine by its Len() alone; the nil interface is
\* a value without a length.
Values == {[len |-> n] : n \in 0..MaxValueLen}
NilValue == [isNil |-> TRUE]

Threads == CallerIds
\* the elements add() can allocate; an add needs a free one
MaxElems == Cardinality(Keys) + 1
\* the asynchronous deletes of one key that can be pending at once
MaxAsync == Cardinality(Threads)
ElemIds == 1..MaxElems

NoPanic == "none"

(* ------------------------------------------------------ Options defaults *)
DefaultMaxBytes == 8 * 1024 * 1024
\* time.Minute, in the model's time unit (one second)
DefaultCleanupInterval == 60 * 1

withDefault(opt) ==
    [maxBytes |-> IF opt.maxBytes <= 0 THEN DefaultMaxBytes ELSE opt.maxBytes,
     cleanupInterval |-> IF opt.cleanupInterval <= 0 THEN DefaultCleanupInterval
                         ELSE opt.cleanupInterval]

(* ---------------------------------------------------------- Go map steps *)
MapPut(m, k, v) == [x \in (DOMAIN m) \cup {k} |-> IF x = k THEN v ELSE m[x]]
MapDelete(m, k) == [x \in (DOMAIN m) \ {k} |-> m[x]]
EmptyMap == [x \in {} |-> 0]

(* -------------------------------------------------------- container/list *)
\* A list is the sequence of its elements' ids, front first. An element
\* belongs to the list exactly while its id is in the sequence (e.list == l).
InList(l, e) == \E i \in 1..Len(l) : l[i] = e
PushBack(l, e) == Append(l, e)
ListRemove(l, e) == SelectSeq(l, LAMBDA x : x # e)
MoveToBack(l, e) == IF InList(l, e) THEN Append(ListRemove(l, e), e) ELSE l

VARIABLES c, mu, now, pc, local, async, last, reaper

\* The Cache facade of cache.go: its fields, the stores its callers have
\* constructed, and each calling goroutine's position in Add.
VARIABLES facade, stores, fpc

fvars == <<facade, stores, fpc>>
evars == <<c, mu, now, pc, local, async, last, reaper>>
vars == <<c, mu, now, pc, local, async, last, reaper, facade, stores, fpc>>

(* ------------------------------------------------- dynamic types of Go  *)
\* The dynamic type of the interface value an element holds (elem.Value).
\* A type assertion x.(T) without the comma-ok form panics unless the
\* dynamic type is exactly T.
Asserts(e, T) == e.dyn = T

Panic(cc, where) == [cc EXCEPT !.panic = where]

(* ------------------------------------------------------------------- add *)
\* add that stores the *LruEntry update and removeCache assert
add_PtrEntry(cc, key, value) ==
    LET e == cc.nextElem IN
    [cc EXCEPT !.elem[e] = [key |-> key, value |-> value, dyn |-> "*LruEntry"],
               !.nextElem = e + 1,
               !.list = PushBack(cc.list, e),
               !.items = MapPut(cc.items, key, e)]

\* add that forgets the index map
add_NoIndex(cc, key, value) ==
    LET e == cc.nextElem IN
    [cc EXCEPT !.elem[e] = [key |-> key, value |-> value, dyn |-> "**LruEntry"],
               !.nextElem = e + 1,
               !.list = PushBack(cc.list, e)]

\* entry := &LruEntry{...}; c.list.PushBack(&entry): the element holds the
\* address of the local pointer variable, a **LruEntry.
add(cc, key, value) ==
    LET e == cc.nextElem IN
    [cc EXCEPT !.elem[e] = [key |-> key, value |-> value, dyn |-> "**LruEntry"],
               !.nextElem = e + 1,
               !.list = PushBack(cc.list, e),
               !.items = MapPut(cc.items, key, e)]

(* ---------------------------------------------------------------- update *)
\* returns the cache and the error ("" for nil)
update(cc, e, value) ==
    IF ~Asserts(cc.elem[e], "*LruEntry")
    THEN [c |-> Panic(cc, "update:163"), err |-> ""]
    ELSE LET entry == cc.elem[e]
             cbytes == cc.currentBytes + (value.len - entry.value.len)
         IN IF cbytes > cc.maxBytes
            THEN [c |-> cc, err |-> "CapacityExceeded"]
            ELSE [c |-> [cc EXCEPT !.currentBytes = @ + (value.len - entry.value.len),
                                   !.elem[e].value = value,
                                   !.list = MoveToBack(cc.list, e)],
                  err |-> ""]

(* --------------------------------------------------------- createExpires *)
createExpires(cc, key, t) ==
    [cc EXCEPT !.expires = MapPut(cc.expires, key, t + cc.cleanupInterval)]

(* ----------------------------------------------------------- removeCache *)
removeCache(cc, e) ==
    IF ~Asserts(cc.elem[e], "*LruEntry")
    THEN Panic(cc, "removeCache:237")
    ELSE LET entry == cc.elem[e] IN
         [cc EXCEPT !.list = ListRemove(cc.list, e),
                    !.items = MapDelete(cc.items, entry.key),
                    !.currentBytes = @ - (KeyLen(entry.key) + entry.value.len),
                    !.evicted[entry.key] = Append(@, entry.value)]

(* ----------------------------------------------------------------- evict *)
\* time.Now().After(t)
After(t, u) == t > u

\* The expiry pass ranges over the expiry map in no fixed order; the order
\* changes neither the resulting cache nor the per-key callback log, and a
\* panic of removeCache ends the pass at the first expired live key.
RECURSIVE expiryPass(_, _, _)
expiryPass(cc, t, todo) ==
    IF todo = {} \/ cc.panic # NoPanic THEN cc
    ELSE LET i == CHOOSE k \in todo : TRUE
             nxt == IF After(t, cc.expires[i]) /\ i \in DOMAIN cc.items
                    THEN removeCache(cc, cc.items[i])
                    ELSE cc
         IN expiryPass(nxt, t, todo \ {i})

RECURSIVE capacityPass(_)
capacityPass(cc) ==
    IF cc.panic = NoPanic /\ cc.currentBytes > cc.maxBytes /\ cc.maxBytes > 0
       /\ Len(cc.list) > 0
    THEN capacityPass(removeCache(cc, Head(cc.list)))
    ELSE cc

evict(cc, t) == capacityPass(expiryPass(cc, t, DOMAIN cc.expires))

(* ----------------------------------------------------- AddAndUpdateCache *)
\* AddAndUpdateCache that counts the value's length alone for a new entry
AddAndUpdateCache_NoKeyLen(cc, key, value, t) ==
    IF value = NilValue THEN [c |-> cc, err |-> ""]
    ELSE IF key \in DOMAIN cc.items
    THEN LET r == update(cc, cc.items[key], value) IN
         IF r.err # "" THEN [c |-> Panic(r.c, "AddAndUpdateCache:130 nil logger"), err |-> ""]
         ELSE r
    ELSE LET c1 == add(cc, key, value)
             c2 == [c1 EXCEPT !.currentBytes = @ + value.len]
             c3 == createExpires(c2, key, t)
         IN [c |-> evict(c3, t), err |-> ""]

\* returns the cache and the error; the caller holds no lock
AddAndUpdateCache(cc, key, value, t) ==
    IF value = NilValue THEN [c |-> cc, err |-> ""]
    ELSE IF key \in DOMAIN cc.items
    THEN LET r == update(cc, cc.items[key], value) IN
         \* line 130: c.log is never assigned, and a method of a nil
         \* *zap.Logger dereferences it
         IF r.err # "" THEN [c |-> Panic(r.c, "AddAndUpdateCache:130 nil logger"), err |-> ""]
         ELSE r
    ELSE LET c1 == add(cc, key, value)
             c2 == [c1 EXCEPT !.currentBytes = @ + KeyLen(key) + value.len]
             c3 == createExpires(c2, key, t)
         IN [c |-> evict(c3, t), err |-> ""]

(* ----------------------------------------------------------- DeleteCache *)
\* DeleteCache that reports a removal to the callback without looking the
\* key up
DeleteCache_NoLookup(cc, key) ==
    IF key \in DOMAIN cc.items THEN removeCache(cc, cc.items[key])
    ELSE [cc EXCEPT !.evicted[key] = Append(@, NilValue)]

DeleteCache(cc, key) ==
    IF key \in DOMAIN cc.items THEN removeCache(cc, cc.items[key]) ELSE cc

(* -------------------------------------------------------------- RWMutex *)
\* mu.readers is the count of read locks held, mu.writer whether the write
\* lock is held. RUnlock of a mutex no reader holds is a runtime fatal error.
LockFree == mu.writer = FALSE /\ mu.readers = 0
CanRLock == mu.writer = FALSE

Alive == c.panic = NoPanic

(* ------------------------------------------------------------------ Init *)
NewLruCache(opt) ==
    LET o == withDefault(opt) IN
    [list |-> <<>>,
     items |-> EmptyMap,
     maxBytes |-> o.maxBytes,
     currentBytes |-> 0,
     expires |-> EmptyMap,
     cleanupInterval |-> o.cleanupInterval,
     closeChan |-> "open",
     elem |-> [e \in ElemIds |-> [key |-> "", value |-> NilValue, dyn |-> "unallocated"]],
     nextElem |-> 1,
     evicted |-> [k \in Keys |-> <<>>],
     panic |-> NoPanic]

\* NewCache: no store yet, both flags and both counters zero. addedTo
\* records the stores on which an Add that returned was applied.
NewCache == [initialized |-> 0, closed |-> 0, store |-> 0, hits |-> 0, misses |-> 0,
             addedTo |-> {}]
FIdle == [pc |-> "idle", key |-> "", value |-> NilValue, cache |-> 0]

IdleLocal == [key |-> "", element |-> 0, expired |-> FALSE]
NoOp == [op |-> "none", key |-> "", res |-> ""]

Init ==
    /\ c = NewLruCache([maxBytes |-> OptMaxBytes, cleanupInterval |-> OptCleanupInterval])
    /\ mu = [readers |-> 0, writer |-> FALSE]
    /\ now = 0
    /\ pc = [t \in Threads |-> "idle"]
    /\ local = [t \in Threads |-> IdleLocal]
    /\ async = [k \in Keys |-> 0]
    /\ last = NoOp
    /\ reaper = "running"
    /\ facade = NewCache
    /\ stores = <<>>
    /\ fpc = [g \in Threads |-> FIdle]

\* the operation that ended last, its key and how it ended
Done(op, key, res) == [op |-> op, key |-> key, res |-> res]

Outcome(cc, ok) == IF cc.panic # NoPanic THEN "panic" ELSE ok

(* --------------------------------------------------------------- actions *)
\* A caller's AddAndUpdateCache: Lock, defer Unlock, the body. The deferred
\* Unlock also runs when the body panics.
DoAdd(t, key, value) ==
    /\ Alive /\ pc[t] = "idle"
    /\ value = NilValue \/ LockFree
    /\ key \in DOMAIN c.items \/ value = NilValue \/ c.nextElem \in ElemIds
    /\ LET r == AddAndUpdateCache(c, key, value, now) IN
         /\ c' = r.c
         /\ last' = Done(IF value # NilValue /\ key \in DOMAIN c.items THEN "update" ELSE "add",
                         key,
                         IF r.err # "" THEN r.err ELSE Outcome(r.c, "ok"))
    /\ UNCHANGED <<mu, now, pc, local, async, reaper>>
    /\ UNCHANGED fvars

DoDelete(t, key) ==
    /\ Alive /\ pc[t] = "idle"
    /\ LockFree
    /\ c' = DeleteCache(c, key)
    /\ last' = Done("delete", key, Outcome(c', "ok"))
    /\ UNCHANGED <<mu, now, pc, local, async, reaper>>
    /\ UNCHANGED fvars

(* ------------------------------------------------------------- FindCache *)
\* Lines 198-215: the shared-lock phase. On an expired key the read lock is
\* released at line 207 and the delete goroutine is started; the lookup
\* goes on to line 216 either way.
FindStart(t, key) ==
    /\ Alive /\ pc[t] = "idle"
    /\ CanRLock
    /\ IF key \notin DOMAIN c.items
       THEN /\ last' = Done("find", key, "notfound")
            /\ UNCHANGED <<mu, pc, local, async>>
       ELSE LET expired == key \in DOMAIN c.expires /\ After(now, c.expires[key]) IN
            /\ expired => async[key] < MaxAsync
            /\ mu' = IF expired THEN mu ELSE [mu EXCEPT !.readers = @ + 1]
            /\ async' = IF expired THEN [async EXCEPT ![key] = @ + 1] ELSE async
            /\ local' = [local EXCEPT ![t] = [key |-> key, element |-> c.items[key],
                                              expired |-> expired]]
            /\ pc' = [pc EXCEPT ![t] = "value"]
            /\ UNCHANGED last
    /\ UNCHANGED <<c, now, reaper>>
    /\ UNCHANGED fvars

\* Lines 216-217: element.Value.(LruEntry).value, then RUnlock. RUnlock of
\* a mutex that no reader holds is a fatal error of the runtime.
FindValue(t) ==
    IF ~Asserts(c.elem[local[t].element], "LruEntry")
    THEN /\ c' = Panic(c, "FindCache:216")
         /\ last' = Done("find", local[t].key, "panic")
         /\ UNCHANGED <<mu, pc, local>>
    ELSE IF mu.readers = 0
    THEN /\ c' = Panic(c, "FindCache:217 RUnlock of unlocked RWMutex")
         /\ last' = Done("find", local[t].key, "panic")
         /\ UNCHANGED <<mu, pc, local>>
    ELSE /\ mu' = [mu EXCEPT !.readers = @ - 1]
         /\ pc' = [pc EXCEPT ![t] = "move"]
         /\ UNCHANGED <<c, last, local>>

\* Lines 219-225: the exclusive-lock phase, the move to the tail.
FindMove(t) ==
    /\ LockFree
    /\ c' = IF local[t].key \in DOMAIN c.items
            THEN [c EXCEPT !.list = MoveToBack(c.list, local[t].element)]
            ELSE c
    /\ pc' = [pc EXCEPT ![t] = "idle"]
    /\ local' = [local EXCEPT ![t] = IdleLocal]
    /\ last' = Done("find", local[t].key, "found")
    /\ UNCHANGED mu

\* The rest of a lookup that found its key in the shared-lock phase.
FindFinish(t) ==
    /\ Alive /\ pc[t] # "idle"
    /\ IF pc[t] = "value" THEN FindValue(t) ELSE FindMove(t)
    /\ UNCHANGED <<now, async, reaper>>
    /\ UNCHANGED fvars

\* go func() { c.DeleteCache(key) }() of line 209
AsyncDelete(key) ==
    /\ Alive /\ async[key] > 0
    /\ LockFree
    /\ c' = DeleteCache(c, key)
    /\ async' = [async EXCEPT ![key] = @ - 1]
    /\ last' = Done("asyncdelete", key, Outcome(c', "ok"))
    /\ UNCHANGED <<mu, now, pc, local, reaper>>
    /\ UNCHANGED fvars

(* ---------------------------------------------------------------- reaper *)
\* One firing of cleanupLoop's ticker case: Lock, evict, Unlock. There is no
\* defer: a panic in evict leaves the write lock held. A tick buffered
\* before Close is a sweep that commutes with Close (Close touches neither
\* the lock nor the cache), so sweeps are taken while the channel is open.
ReaperSweep ==
    /\ Alive /\ reaper = "running" /\ c.closeChan = "open"
    /\ LockFree
    /\ c' = evict(c, now)
    /\ mu' = IF c'.panic # NoPanic THEN [mu EXCEPT !.writer = TRUE] ELSE mu
    /\ last' = Done("sweep", "", Outcome(c', "ok"))
    /\ UNCHANGED <<now, pc, local, async, reaper>>
    /\ UNCHANGED fvars

\* cleanupLoop's closeChan case
ReaperExit ==
    /\ Alive /\ reaper = "running" /\ c.closeChan = "closed"
    /\ reaper' = "stopped"
    /\ UNCHANGED <<c, mu, now, pc, local, async, last>>
    /\ UNCHANGED fvars

\* Close behind a one-shot guard: a second call does nothing
Close_Once(t) ==
    /\ Alive /\ pc[t] = "idle"
    /\ c' = [c EXCEPT !.closeChan = "closed"]
    /\ last' = Done("close", "", "ok")
    /\ UNCHANGED <<mu, now, pc, local, async, reaper>>
    /\ UNCHANGED fvars

\* Close: cleanTicker is never nil after construction; closing a closed
\* channel panics.
Close(t) ==
    /\ Alive /\ pc[t] = "idle"
    /\ c' = IF c.closeChan = "closed" THEN Panic(c, "Close:307 close of closed channel")
            ELSE [c EXCEPT !.closeChan = "closed"]
    /\ last' = Done("close", "", Outcome(c', "ok"))
    /\ UNCHANGED <<mu, now, pc, local, async, reaper>>
    /\ UNCHANGED fvars

Tick ==
    /\ Alive
    /\ now < MaxTime
    /\ now' = now + 1
    /\ UNCHANGED <<c, mu, pc, local, async, last, reaper>>
    /\ UNCHANGED fvars

Next ==
    \/ \E t \in Threads, key \in Keys, value \in Values \cup {NilValue} : DoAdd(t, key, value)
    \/ \E t \in Threads, key \in Keys : DoDelete(t, key)
    \/ \E t \in Threads, key \in Keys : FindStart(t, key)
    \/ \E t \in Threads : FindFinish(t)
    \/ \E key \in Keys : AsyncDelete(key)
    \/ ReaperSweep
    \/ ReaperExit
    \/ \E t \in Threads : Close(t)
    \/ Tick

Spec == Init /\ [][Next]_vars

(* ---------------------------------------------------------- Cache facade *)
\* No store the facade constructed has panicked.
FacadeAlive == \A i \in 1..Len(stores) : stores[i].panic = NoPanic

\* FindCache as one step on a store nobody else is using: not found, or the
\* type assertion of line 216, or the move to the tail.
StoreFind(cc, key) ==
    IF key \notin DOMAIN cc.items THEN [c |-> cc, found |-> FALSE]
    ELSE IF ~Asserts(cc.elem[cc.items[key]], "LruEntry")
    THEN [c |-> Panic(cc, "FindCache:216"), found |-> FALSE]
    ELSE [c |-> [cc EXCEPT !.list = MoveToBack(cc.list, cc.items[key])], found |-> TRUE]

\* Add, line 71: the first load of initialized.
FAddStart(g, key, value) ==
    /\ FacadeAlive /\ fpc[g].pc = "idle"
    /\ fpc' = [fpc EXCEPT ![g] = [pc |-> IF facade.initialized = 0 THEN "ensure" ELSE "call",
                                  key |-> key, value |-> value, cache |-> 0]]
    /\ UNCHANGED <<facade, stores>>
    /\ UNCHANGED evars

\* ensureInitialized, line 51: the second load, compared with 1.
FEnsureCheck(g) ==
    /\ FacadeAlive /\ fpc[g].pc = "ensure"
    /\ fpc' = [fpc EXCEPT ![g].pc = IF facade.initialized = 1 THEN "call" ELSE "construct"]
    /\ UNCHANGED <<facade, stores>>
    /\ UNCHANGED evars

\* ensureInitialized, lines 55-60: lru.NewStore builds a new engine (and
\* starts its reaper) whatever the cache type.
FConstruct(g) ==
    /\ FacadeAlive /\ fpc[g].pc = "construct"
    /\ stores' = Append(stores, NewLruCache([maxBytes |-> OptMaxBytes,
                                             cleanupInterval |-> OptCleanupInterval]))
    /\ fpc' = [fpc EXCEPT ![g].pc = "assign", ![g].cache = Len(stores) + 1]
    /\ UNCHANGED facade
    /\ UNCHANGED evars

\* ensureInitialized, line 62: c.store = cache
FAssign(g) ==
    /\ FacadeAlive /\ fpc[g].pc = "assign"
    /\ facade' = [facade EXCEPT !.store = fpc[g].cache]
    /\ fpc' = [fpc EXCEPT ![g].pc = "publish"]
    /\ UNCHANGED stores
    /\ UNCHANGED evars

\* ensureInitialized, line 64: atomic.AddInt32(&c.initialized, 1); the log
\* call of line 65 changes no state.
FPublish(g) ==
    /\ FacadeAlive /\ fpc[g].pc = "publish"
    /\ facade' = [facade EXCEPT !.initialized = @ + 1]
    /\ fpc' = [fpc EXCEPT ![g].pc = "call"]
    /\ UNCHANGED stores
    /\ UNCHANGED evars

\* Add, line 75: c.store.AddAndUpdateCache(key, value) on the store the
\* field references now.
FAddCall(g) ==
    /\ FacadeAlive /\ fpc[g].pc = "call"
    /\ facade.store \in 1..Len(stores)
    /\ LET s == facade.store
           isNew == fpc[g].value # NilValue /\ fpc[g].key \notin DOMAIN stores[s].items
           r == AddAndUpdateCache(stores[s], fpc[g].key, fpc[g].value, now)
       IN /\ isNew => stores[s].nextElem \in ElemIds
          /\ stores' = [stores EXCEPT ![s] = r.c]
          /\ facade' = IF r.c.panic = NoPanic /\ r.err = "" /\ fpc[g].value # NilValue
                       THEN [facade EXCEPT !.addedTo = @ \cup {s}]
                       ELSE facade
    /\ fpc' = [fpc EXCEPT ![g] = FIdle]
    /\ UNCHANGED evars

\* Delete, lines 83-92
FDelete(g, key) ==
    /\ FacadeAlive /\ fpc[g].pc = "idle"
    /\ IF facade.closed = 1 \/ facade.initialized = 0
       THEN UNCHANGED stores
       ELSE stores' = [stores EXCEPT ![facade.store] = DeleteCache(stores[facade.store], key)]
    /\ UNCHANGED <<facade, fpc>>
    /\ UNCHANGED evars

\* Get, lines 95-127
FGet(g, key) ==
    /\ FacadeAlive /\ fpc[g].pc = "idle"
    /\ facade.hits + facade.misses < MaxLookups
    /\ IF facade.closed = 1
       THEN UNCHANGED <<facade, stores>>
       ELSE IF facade.initialized = 0
       THEN facade' = [facade EXCEPT !.misses = @ + 1] /\ UNCHANGED stores
       ELSE LET r == StoreFind(stores[facade.store], key) IN
            /\ stores' = [stores EXCEPT ![facade.store] = r.c]
            /\ facade' = IF r.c.panic # NoPanic THEN facade
                         ELSE IF r.found THEN [facade EXCEPT !.hits = @ + 1]
                         ELSE [facade EXCEPT !.misses = @ + 1]
    /\ UNCHANGED fpc
    /\ UNCHANGED evars

FacadeNext ==
    \/ \E g \in Threads, key \in Keys, value \in Values \cup {NilValue} : FAddStart(g, key, value)
    \/ \E g \in Threads : FEnsureCheck(g)
    \/ \E g \in Threads : FConstruct(g)
    \/ \E g \in Threads : FAssign(g)
    \/ \E g \in Threads : FPublish(g)
    \/ \E g \in Threads : FAddCall(g)
    \/ \E g \in Threads, key \in Keys : FDelete(g, key)
    \/ \E g \in Threads, key \in Keys : FGet(g, key)

FacadeSpec == Init /\ [][FacadeNext]_vars

(* ------------------------------------------------------------ C1 .. C10 *)
LiveKeys(cc) == DOMAIN cc.items
ListKeys(cc) == {cc.elem[cc.list[i]].key : i \in 1..Len(cc.list)}
EntrySize(cc, key) == KeyLen(key) + cc.elem[cc.items[key]].value.len
ExpiredLive(cc, t) == {k \in LiveKeys(cc) : k \in DOMAIN cc.expires /\ After(t, cc.expires[k])}
IsInsert(key, value) == value # NilValue /\ key \notin DOMAIN c.items
IsUpdate(key, value) == value # NilValue /\ key \in DOMAIN c.items

\* C1: whenever no operation holds the write lock, currentBytes <= maxBytes.
C1_ByteBudget == (mu.writer = FALSE) => c.currentBytes <= c.maxBytes

\* C2: the keys of the index map are exactly the keys of the entries in the
\* recency list, each key is in the list once, and the index map points at
\* that element.
C2_Parity ==
    /\ ListKeys(c) = LiveKeys(c)
    /\ \A i, j \in 1..Len(c.list) :
          c.elem[c.list[i]].key = c.elem[c.list[j]].key => i = j
    /\ \A k \in LiveKeys(c) : InList(c.list, c.items[k]) /\ c.elem[c.items[k]].key = k

C2_Witness ==
    /\ Len(c.list) >= 2
    /\ last.op = "sweep" /\ last.res = "ok"

\* C3: an insert that leaves the cache over budget with no expired entry
\* capacity-evicts from the least-recently-used end: the head of the list is
\* gone afterwards and what is left is a suffix of the list with the new
\* entry appended.
C3_LruVictim ==
    [][\A t \in Threads, key \in Keys, value \in Values :
          (/\ DoAdd(t, key, value)
           /\ IsInsert(key, value)
           /\ Len(c.list) > 0
           /\ ExpiredLive(c, now) = {}
           /\ c.currentBytes + KeyLen(key) + value.len > c.maxBytes)
          => /\ c.elem[Head(c.list)].key \notin LiveKeys(c')
             /\ \E n \in 1..(Len(c.list) + 1) :
                   c'.list = SubSeq(Append(c.list, c.nextElem), n + 1, Len(c.list) + 1)]_vars

\* C4: an update of a present key that would exceed the budget returns
\* CapacityExceeded and leaves the engine unchanged.
C4_CapacityRejection ==
    [][\A t \in Threads, key \in Keys, value \in Values :
          (/\ DoAdd(t, key, value)
           /\ IsUpdate(key, value)
           /\ c.currentBytes + (value.len - c.elem[c.items[key]].value.len) > c.maxBytes)
          => /\ last'.res = "CapacityExceeded"
             /\ c' = c]_vars

\* C5: when a sweep ends (the reaper's or an insert's), no live entry has an
\* expiry instant before the time of the sweep.
C5_SweepCompleteness ==
    [][(\/ ReaperSweep
        \/ \E t \in Threads, key \in Keys, value \in Values :
              DoAdd(t, key, value) /\ IsInsert(key, value))
       => ExpiredLive(c', now) = {}]_vars

\* C6: a DeleteCache of a live key removes the entry and calls the eviction
\* callback exactly once, with the key and the stored value, before it
\* returns.
C6_CallbackOnce ==
    [][\A t \in Threads, key \in Keys :
          (DoDelete(t, key) /\ key \in LiveKeys(c))
          => /\ key \notin LiveKeys(c')
             /\ c'.evicted[key] = Append(c.evicted[key], c.elem[c.items[key]].value)
             /\ last'.res = "ok"]_vars

\* C7: a lookup that found its key in the shared-lock phase completes
\* without error; if the key's element is no longer the indexed one when the
\* move is attempted, the list is left as it is and nothing is re-linked.
C7_TouchRace ==
    [][\A t \in Threads :
          FindFinish(t)
          => /\ c'.panic = NoPanic
             /\ (pc[t] = "move" /\ ~InList(c.list, local[t].element))
                   => (c'.list = c.list /\ c'.items = c.items)]_vars

\* C8: a lookup of a present key whose expiry instant has passed schedules the
\* asynchronous delete and then completes normally, returning found.
C8_StaleRead ==
    [][\A t \in Threads :
          (FindFinish(t) /\ local[t].expired)
          => /\ c'.panic = NoPanic
             /\ (pc'[t] = "idle" => last'.res = "found")]_vars

\* C9: an insert of an absent key returns success, and the key is live
\* afterwards exactly if the entry alone fits the budget.
C9_InsertSucceeds ==
    [][\A t \in Threads, key \in Keys, value \in Values :
          (DoAdd(t, key, value) /\ IsInsert(key, value))
          => /\ last'.res = "ok"
             /\ (key \in LiveKeys(c')) <=> (KeyLen(key) + value.len <= c.maxBytes)]_vars

\* C10: DeleteCache of a key that is not in the index map returns success,
\* calls no callback and changes nothing of the engine.
C10_IdempotentDelete ==
    [][\A t \in Threads, key \in Keys :
          (DoDelete(t, key) /\ key \notin LiveKeys(c))
          => /\ last'.res = "ok"
             /\ c' = c]_vars

C10_Witness ==
    /\ last.op = "delete" /\ last.res = "ok"
    /\ last.key \notin LiveKeys(c)
    /\ Len(c.list) > 0

(* ----------------------------------------------------------- C11 .. C19 *)
\* C11: no AddAndUpdateCache, FindCache or DeleteCache call of a caller ends
\* in a panic.
C11_NoCrash ==
    last.op \in {"add", "update", "delete", "find"} => last.res # "panic"

\* The reaper goroutine is in its loop: it has not returned and its sweep
\* has not panicked.
ReaperRunning == reaper = "running" /\ ~(last.op = "sweep" /\ last.res = "panic")

\* C12: the reaper leaves its loop only after Close has closed the shutdown
\* channel.
C12_ReaperLifecycle ==
    [][(ReaperRunning /\ ~ReaperRunning') => c.closeChan = "closed"]_vars

\* C13: the first Close completes normally and closes the channel; a Close
\* of an engine already closed ends in a fatal error.
C13_CloseNotIdempotent ==
    [][\A t \in Threads :
          Close(t)
          => /\ c.closeChan = "open" => (c'.panic = NoPanic /\ c'.closeChan = "closed")
             /\ c.closeChan = "closed" => c'.panic # NoPanic]_vars

C13_Witness ==
    /\ c.closeChan = "closed"
    /\ c.panic = "Close:307 close of closed channel"

RECURSIVE SumSizes(_, _)
SumSizes(cc, ks) ==
    IF ks = {} THEN 0
    ELSE LET k == CHOOSE x \in ks : TRUE IN EntrySize(cc, k) + SumSizes(cc, ks \ {k})

\* C14: currentBytes is the sum, over the live entries, of len(key) plus the
\* length of the stored value.
C14_ByteAccounting == c.currentBytes = SumSizes(c, LiveKeys(c))

C14_Witness ==
    /\ Len(c.list) >= 2
    /\ c.currentBytes > 0
    /\ last.op = "delete"

C16_UpdateKeepsExpiry ==
    [][\A t \in Threads, key \in Keys, value \in Values :
          (/\ DoAdd(t, key, value)
           /\ IsUpdate(key, value)
           /\ c.currentBytes + (value.len - c.elem[c.items[key]].value.len) <= c.maxBytes)
          => /\ c'.elem[c.items[key]].value = value
             /\ c'.list[Len(c'.list)] = c.items[key]
             /\ c'.expires = c.expires]_vars

C18_LockDiscipline ==
    Cardinality({t \in Threads : pc[t] = "value"}) <= mu.readers

C20_SingleStore ==
    /\ Len(stores) <= 1
    /\ facade.addedTo \subseteq {facade.store}

====
